---- MODULE Spec2Model ----
(***************************************************************************)
(* Powers-of-tau ceremony core (kzg-ceremony-coordinator): the SRS update  *)
(* add_tau, the pairing verification, the BatchPairingCheck accumulator    *)
(* and the GLV multiplication on G1.                                       *)
(*                                                                         *)
(* The curve is scaled down so that every group element can be enumerated: *)
(*   Fq  = integers mod Q = 37                                             *)
(*   E   : y^2 = x^3 + 4 over Fq  (the BLS12-381 G1 equation), 39 points,  *)
(*         cofactor 3, prime-order subgroup of order R = 13                *)
(*   R   = Z^4 - Z^2 + 1 with Z = 2 (the BLS12 relation between the curve  *)
(*         parameter and the group order), so Z^2 = 4 is the GLV constant  *)
(*         G1_LAMBDA_2 and psi(x,y) = (BETA*x, y) acts as -[Z^2].          *)
(*   G2, GT are written by discrete logarithm (integers mod R); the        *)
(*         pairing multiplies discrete logarithms.                         *)
(* Projective and affine points are not distinguished: a point is its      *)
(* normalized affine form.                                                 *)
(***************************************************************************)
EXTENDS Integers, Sequences, FiniteSets, TLC

VARIABLES
    contribution,   \* Contribution {pubkey, g1_powers, g2_powers}
    transcript,     \* Transcript {g1_powers, g2_powers, products, pubkeys}
    origin,         \* how the genesis contribution was made: "new" | "parsed"
    taus,           \* secrets handed to add_tau so far, in order
    tampered,       \* 0, or k+1 when g1_powers[k] was replaced after the update
    vpc,            \* position inside verify: "idle" | "g1" | "g2"
    outcome,        \* how the last verify ended: "none" | "ok" | "panic_..."
    mem,            \* what add_tau left behind in the memory it used
    accA, accB,     \* two BatchPairingCheck values (or Moved)
    histA, histB,   \* the add_check calls that went into each
    merges,         \* number of merge calls done on accA
    result,         \* "none", or "true" / "false" as returned by accA.check()
    glv_in,         \* <<point, scalar>> last handed to g1_split / g1_mul_glv
    glv_out,        \* [k0, k1, value] they returned
    hex_in,         \* string last handed to parse_g1
    hex_out,        \* what parse_g1 returned for it
    doc,            \* a ContributionsJson document
    edits,          \* number of changes made to the genesis document
    doc_out,        \* what doc.parse() returned, or NoCall
    schema,         \* CONTRIBUTION_SCHEMA: the Lazy cell and how often it was compiled
    mutex,          \* holder of the schema's Mutex (a thread), or 0
    tpc,            \* position of each thread inside from_json
    checked,        \* how the last subgroup_check of the contribution ended
    base,           \* the contribution as it was before the add_tau calls
    draw            \* the scalars random_factors drew in the last verify

protoVars == <<contribution, transcript, origin, taus, tampered, vpc, outcome, mem>>
batchVars == <<accA, accB, histA, histB, merges, result>>
glvVars   == <<glv_in, glv_out>>
codecVars == <<hex_in, hex_out>>
docVars   == <<doc, edits, doc_out>>
schemaVars == <<schema, mutex, tpc>>
trustVars == <<checked>>
runVars   == <<base, draw>>
vars      == <<protoVars, batchVars, glvVars, codecVars, docVars, schemaVars, trustVars,
               runVars>>

\* the variables outside each group
notProto  == <<batchVars, glvVars, codecVars, docVars, schemaVars, trustVars, runVars>>
notBatch  == <<protoVars, glvVars, codecVars, docVars, schemaVars, trustVars, runVars>>
notGlv    == <<protoVars, batchVars, codecVars, docVars, schemaVars, trustVars, runVars>>
notCodec  == <<protoVars, batchVars, glvVars, docVars, schemaVars, trustVars, runVars>>
notDoc    == <<protoVars, batchVars, glvVars, codecVars, schemaVars, trustVars, runVars>>
notSchema == <<protoVars, batchVars, glvVars, codecVars, docVars, trustVars, runVars>>
notTrust  == <<batchVars, glvVars, codecVars, docVars, schemaVars, runVars>>

-----------------------------------------------------------------------------
(* Scaled curve parameters *)

Z == 2
R == Z * Z * Z * Z - Z * Z + 1
Q == 37
CurveB == 4
BETA == 26
LIMB_BITS == 2
LIMB == 2 ^ LIMB_BITS

Fr == 0 .. R - 1
Fq == 0 .. Q - 1

FrAdd(a, b) == (a + b) % R
FrMul(a, b) == (a * b) % R

FqInv(a) == CHOOSE b \in 1 .. Q - 1 : (a * b) % Q = 1

-----------------------------------------------------------------------------
(* G1: affine points of E(Fq) *)

G1Zero == [x |-> 0, y |-> 1, infinity |-> TRUE]

OnCurve(x, y) == (y * y) % Q = (x * x * x + CurveB) % Q

G1Points ==
    {G1Zero} \cup {[x |-> px, y |-> py, infinity |-> FALSE] :
                      <<px, py>> \in {p \in Fq \X Fq : OnCurve(p[1], p[2])}}

G1Neg(P) == IF P.infinity THEN P ELSE [P EXCEPT !.y = (Q - P.y) % Q]

CurveAdd(P, S) ==
    IF P.infinity THEN S
    ELSE IF S.infinity THEN P
    ELSE IF P.x = S.x /\ (P.y + S.y) % Q = 0 THEN G1Zero
    ELSE LET l  == IF P = S
                   THEN (3 * P.x * P.x * FqInv((2 * P.y) % Q)) % Q
                   ELSE ((S.y - P.y + Q) * FqInv((S.x - P.x + Q) % Q)) % Q
             x3 == (l * l + 2 * Q - P.x - S.x) % Q
         IN  [x |-> x3, y |-> (l * (P.x + Q - x3) + Q - P.y) % Q, infinity |-> FALSE]

\* (f @@ <<>> is f written out as an explicit table)
G1AddTable == [P \in G1Points |-> [S \in G1Points |-> CurveAdd(P, S)] @@ <<>>] @@ <<>>

G1Add(P, S) == G1AddTable[P][S]

\* scalar multiplication by double-and-add over the bits of k
RECURSIVE G1MulBits(_, _)
G1MulBits(P, k) ==
    IF k = 0 THEN G1Zero
    ELSE LET h == G1MulBits(P, k \div 2)
             d == G1Add(h, h)
         IN  IF k % 2 = 1 THEN G1Add(d, P) ELSE d

G1MulTable == [P \in G1Points |-> [k \in Fr |-> G1MulBits(P, k)] @@ <<>>] @@ <<>>

G1Mul(P, k) == IF k \in Fr THEN G1MulTable[P][k] ELSE G1MulBits(P, k)

G1Gen == [x |-> 17, y |-> 12, infinity |-> FALSE]

G1Subgroup == {G1MulBits(G1Gen, k) : k \in Fr}

G1DLogTable == [P \in G1Subgroup |-> CHOOSE k \in Fr : G1MulBits(G1Gen, k) = P] @@ <<>>

\* is_in_correct_subgroup_assuming_on_curve: [R]P is the identity
\* membership in the subgroup is not looked at
G1InSubgroup_mut(P) == TRUE

G1InSubgroup(P) == G1Mul(P, R) = G1Zero

-----------------------------------------------------------------------------
(* G2 and GT by discrete logarithm, and the pairing *)

G2 == Fr
G2Zero == 0
G2Gen == 1
G2Add(a, b) == (a + b) % R
G2Mul(a, k) == (a * k) % R

\* the pairing annihilates the cofactor part of a G1 point (27 = 1 mod 13,
\* 27 = 0 mod 3) and multiplies the discrete logarithms
PairingLog == [P \in G1Points |-> G1DLogTable[G1MulBits(P, 27)]] @@ <<>>

Pairing(P, S) == (PairingLog[P] * S) % R

-----------------------------------------------------------------------------
(* GLV multiplication on G1 (subgroup_check.rs) *)

\* the other nontrivial cube root of unity (BETA squared) in place of BETA
g1_endomorphism_mut(P) == [P EXCEPT !.x = (P.x * 10) % Q]

g1_endomorphism(P) == [P EXCEPT !.x = (P.x * BETA) % Q]

G1_LAMBDA_2 == <<0, 1>>

ToLimbs(n, count) == [i \in 1 .. count |-> (n \div (LIMB ^ (i - 1))) % LIMB]

RECURSIVE FromLimbs(_)
FromLimbs(l) == IF l = <<>> THEN 0 ELSE l[1] + LIMB * FromLimbs(Tail(l))

\* ruint::algorithms::div_rem: the numerator becomes the quotient and the
\* divisor becomes the remainder
div_rem(numerator, divisor) ==
    LET n == FromLimbs(numerator)
        d == FromLimbs(divisor)
    IN  [numerator |-> ToLimbs(n \div d, Len(numerator)),
         divisor   |-> ToLimbs(n % d, Len(divisor))]

\* quotient and remainder taken from the wrong buffers
g1_split_mut(tau) ==
    LET dr == div_rem(ToLimbs(tau, 4), G1_LAMBDA_2)
        k0 == dr.numerator[1] + dr.numerator[2] * LIMB
        k1 == dr.divisor[1] + dr.divisor[2] * LIMB
    IN  <<k0, k1>>

g1_split(tau) ==
    LET dr == div_rem(ToLimbs(tau, 4), G1_LAMBDA_2)
        k0 == dr.divisor[1] + dr.divisor[2] * LIMB
        k1 == dr.numerator[1] + dr.numerator[2] * LIMB
    IN  <<k0, k1>>

RECURSIVE BitOr(_, _)
BitOr(a, b) ==
    IF a = 0 THEN b
    ELSE IF b = 0 THEN a
    ELSE (IF a % 2 = 1 \/ b % 2 = 1 THEN 1 ELSE 0) + 2 * BitOr(a \div 2, b \div 2)

BitSet(bit, k) == (k \div bit) % 2 = 1

RECURSIVE HighBit(_)
HighBit(n) == IF n <= 1 THEN n ELSE 2 * HighBit(n \div 2)

RECURSIVE GlvLoop(_, _, _, _, _, _)
GlvLoop(res, bit, k0, k1, p, q) ==
    LET r1 == IF BitSet(bit, k0) THEN G1Add(res, p) ELSE res
        r2 == IF BitSet(bit, k1) THEN G1Add(r1, q) ELSE r1
        nb == bit \div 2
    IN  IF nb = 0 THEN r2 ELSE GlvLoop(G1Add(r2, r2), nb, k0, k1, p, q)

g1_mul_glv(p, tau) ==
    LET k  == g1_split(tau)
        k0 == k[1]
        k1 == k[2]
    IN  IF BitOr(k0, k1) = 0 THEN G1Zero
        ELSE GlvLoop(G1Zero, HighBit(BitOr(k0, k1)), k0, k1, p,
                     G1Neg(g1_endomorphism(p)))

-----------------------------------------------------------------------------
(* Idle values of the three groups of variables *)

NoCall == [op |-> "none"]
Moved == [moved |-> TRUE]

GlvIdle == glv_in = NoCall /\ glv_out = NoCall
CodecIdle == hex_in = <<>> /\ hex_out = NoCall
TrustIdle == checked = "none"
RunIdle == base = NoCall /\ draw = <<>>

-----------------------------------------------------------------------------
(* SpecGLV: calls of g1_split and g1_mul_glv on every point and scalar *)

G1Split(tau) ==
    /\ glv_in' = [op |-> "split", p |-> G1Zero, tau |-> tau]
    /\ glv_out' = [k0 |-> g1_split(tau)[1], k1 |-> g1_split(tau)[2], value |-> G1Zero]

G1MulGlv(p, tau) ==
    /\ glv_in' = [op |-> "mul", p |-> p, tau |-> tau]
    /\ glv_out' = [k0 |-> g1_split(tau)[1], k1 |-> g1_split(tau)[2],
                   value |-> g1_mul_glv(p, tau)]

-----------------------------------------------------------------------------
(* BatchPairingCheck (pairing_check.rs) *)

MaxChecks == 2

BatchPairingCheck_new ==
    [lhs |-> <<G1Gen, G2Gen>>, rhs |-> <<G1Gen, G2Gen>>]

\* the right-hand sums accumulate the left-hand pair
add_check_mut(self, lhs, rhs, factor) ==
    [lhs |-> <<G1Add(self.lhs[1], G1Mul(lhs[1], factor)),
               G2Add(self.lhs[2], G2Mul(lhs[2], factor))>>,
     rhs |-> <<G1Add(self.rhs[1], G1Mul(lhs[1], factor)),
               G2Add(self.rhs[2], G2Mul(lhs[2], factor))>>]

add_check(self, lhs, rhs, factor) ==
    [lhs |-> <<G1Add(self.lhs[1], G1Mul(lhs[1], factor)),
               G2Add(self.lhs[2], G2Mul(lhs[2], factor))>>,
     rhs |-> <<G1Add(self.rhs[1], G1Mul(rhs[1], factor)),
               G2Add(self.rhs[2], G2Mul(rhs[2], factor))>>]

merge(self, other) ==
    [lhs |-> <<G1Add(self.lhs[1], other.lhs[1]), G2Add(self.lhs[2], other.lhs[2])>>,
     rhs |-> <<G1Add(self.rhs[1], other.rhs[1]), G2Add(self.rhs[2], other.rhs[2])>>]

check(self) ==
    Pairing(self.lhs[1], self.lhs[2]) = Pairing(self.rhs[1], self.rhs[2])

\* The equalities e(a, b) = e(c, d) offered to add_check: two that hold
\* (one with identity elements) and one that does not.
Pt(k) == G1Mul(G1Gen, k)

CheckInputs ==
    { [lhs |-> <<Pt(1), 4>>, rhs |-> <<Pt(2), 2>>],
      [lhs |-> <<G1Zero, 5>>, rhs |-> <<Pt(6), G2Zero>>],
      [lhs |-> <<Pt(1), 1>>, rhs |-> <<Pt(2), 1>>] }

BatchInit ==
    /\ accA = BatchPairingCheck_new
    /\ accB = BatchPairingCheck_new
    /\ histA = <<>>
    /\ histB = <<>>
    /\ merges = 0
    /\ result = "none"

BatchIdle ==
    /\ accA = Moved /\ accB = Moved
    /\ histA = <<>> /\ histB = <<>>
    /\ merges = 0 /\ result = "none"

AddCheckA(eq, factor) ==
    /\ accA # Moved
    /\ Len(histA) + Len(histB) < MaxChecks
    /\ accA' = add_check(accA, eq.lhs, eq.rhs, factor)
    /\ histA' = Append(histA, [eq |-> eq, factor |-> factor])
    /\ UNCHANGED <<accB, histB, merges, result>>

AddCheckB(eq, factor) ==
    /\ accB # Moved
    /\ Len(histA) + Len(histB) < MaxChecks
    /\ accB' = add_check(accB, eq.lhs, eq.rhs, factor)
    /\ histB' = Append(histB, [eq |-> eq, factor |-> factor])
    /\ UNCHANGED <<accA, histA, merges, result>>

\* accA.merge(accB): accB is moved into the call
Merge ==
    /\ accA # Moved /\ accB # Moved
    /\ accA' = merge(accA, accB)
    /\ accB' = Moved
    /\ histA' = histA \o histB
    /\ histB' = <<>>
    /\ merges' = merges + 1
    /\ UNCHANGED result

\* accA.check(): the accumulator is consumed
Check ==
    /\ accA # Moved
    /\ result' = IF check(accA) THEN "true" ELSE "false"
    /\ accA' = Moved
    /\ UNCHANGED <<accB, histA, histB, merges>>

\* the accumulator obtained from new() by the given add_check calls
RECURSIVE Replay(_)
Replay(h) ==
    IF h = <<>> THEN BatchPairingCheck_new
    ELSE LET last == h[Len(h)]
         IN  add_check(Replay(SubSeq(h, 1, Len(h) - 1)), last.eq.lhs, last.eq.rhs, last.factor)

EqHolds(eq) == Pairing(eq.lhs[1], eq.lhs[2]) = Pairing(eq.rhs[1], eq.rhs[2])

-----------------------------------------------------------------------------
(* Point codec (lib.rs): hex strings are sequences of characters *)

G1_BYTES == 2
G2_BYTES == 4

HexChars == <<"0", "1", "2", "3", "4", "5", "6", "7",
              "8", "9", "a", "b", "c", "d", "e", "f">>
UpperHex == [c \in {"A", "B", "C", "D", "E", "F"} |->
                CASE c = "A" -> 10 [] c = "B" -> 11 [] c = "C" -> 12
                  [] c = "D" -> 13 [] c = "E" -> 14 [] c = "F" -> 15]

IsHexChar(c) == (\E i \in 1 .. 16 : HexChars[i] = c) \/ c \in DOMAIN UpperHex
HexVal(c) == IF c \in DOMAIN UpperHex THEN UpperHex[c]
             ELSE (CHOOSE i \in 1 .. 16 : HexChars[i] = c) - 1

\* UTF-8 width of a character: the only multi-byte character used is "é"
Utf8Len(c) == IF c = "é" THEN 2 ELSE 1

RECURSIVE StrLen(_)
StrLen(hex) == IF hex = <<>> THEN 0 ELSE Utf8Len(hex[1]) + StrLen(Tail(hex))

\* byte offset n falls between two characters of hex (or at either end)
RECURSIVE IsCharBoundary(_, _)
IsCharBoundary(hex, n) ==
    IF n = 0 THEN TRUE
    ELSE IF hex = <<>> THEN FALSE
    ELSE IF Utf8Len(hex[1]) > n THEN FALSE
    ELSE IsCharBoundary(Tail(hex), n - Utf8Len(hex[1]))

RECURSIVE DecodeHex(_)
DecodeHex(chars) ==
    IF chars = <<>> THEN <<>>
    ELSE <<16 * HexVal(chars[1]) + HexVal(chars[2])>> \o DecodeHex(SubSeq(chars, 3, Len(chars)))

Ok(v) == [kind |-> "Ok", value |-> v]
Err(e) == [kind |-> "Err", error |-> e]
Panic(why) == [kind |-> "Panic", error |-> why]

parse_hex(hex, N) ==
    LET expected_len == 2 + 2 * N
    IN  IF StrLen(hex) # expected_len
        THEN Err(<<"InvalidLength", expected_len, StrLen(hex)>>)
        ELSE IF ~IsCharBoundary(hex, 2) THEN Panic("byte index 2 is not a char boundary")
        ELSE IF ~(hex[1] = "0" /\ hex[2] = "x") THEN Err(<<"MissingPrefix">>)
        ELSE IF \E i \in 3 .. Len(hex) : ~IsHexChar(hex[i]) THEN Err(<<"InvalidHex">>)
        ELSE Ok(DecodeHex(SubSeq(hex, 3, Len(hex))))

\* big-endian value of the bytes after the three flag bits are masked off
RECURSIVE BigEndian(_)
BigEndian(bytes) ==
    IF bytes = <<>> THEN 0
    ELSE bytes[Len(bytes)] + 256 * BigEndian(SubSeq(bytes, 1, Len(bytes) - 1))

\* the larger root is taken when the flag is clear
get_point_from_x_mut(x, greatest) ==
    LET roots == {y \in Fq : OnCurve(x, y)}
        pick  == IF greatest
                 THEN CHOOSE y \in roots : \A w \in roots : y <= w
                 ELSE CHOOSE y \in roots : \A w \in roots : w <= y
    IN  IF roots = {} THEN <<>> ELSE <<[x |-> x, y |-> pick, infinity |-> FALSE]>>

\* ark_ec get_point_from_x: the root of x^3 + b selected by greatest, if any
get_point_from_x(x, greatest) ==
    LET roots == {y \in Fq : OnCurve(x, y)}
        pick  == IF greatest
                 THEN CHOOSE y \in roots : \A w \in roots : w <= y
                 ELSE CHOOSE y \in roots : \A w \in roots : y <= w
    IN  IF roots = {} THEN <<>> ELSE <<[x |-> x, y |-> pick, infinity |-> FALSE]>>

\* the larger-root flag is not looked at when the infinity flag is set
parse_g1_mut(hex) ==
    LET ph == parse_hex(hex, G1_BYTES)
    IN  IF ph.kind # "Ok" THEN ph
        ELSE LET bytes      == ph.value
                 compressed == (bytes[1] \div 128) % 2 = 1
                 infinity   == (bytes[1] \div 64) % 2 = 1
                 greatest   == (bytes[1] \div 32) % 2 = 1
                 x          == BigEndian(<<bytes[1] % 32>> \o Tail(bytes))
                 point      == get_point_from_x(x, greatest)
             IN  IF x >= Q THEN Err(<<"InvalidXField">>)
                 ELSE IF ~compressed THEN Err(<<"NotCompressed">>)
                 ELSE IF infinity
                      THEN IF x # 0 THEN Err(<<"InvalidInfinity">>)
                           ELSE Ok(G1Zero)
                 ELSE IF point = <<>> THEN Err(<<"InvalidXCoordinate">>)
                 ELSE IF ~G1InSubgroup(point[1]) THEN Err(<<"InvalidSubgroup">>)
                 ELSE Ok(point[1])

parse_g1(hex) ==
    LET ph == parse_hex(hex, G1_BYTES)
    IN  IF ph.kind # "Ok" THEN ph
        ELSE LET bytes      == ph.value
                 compressed == (bytes[1] \div 128) % 2 = 1
                 infinity   == (bytes[1] \div 64) % 2 = 1
                 greatest   == (bytes[1] \div 32) % 2 = 1
                 x          == BigEndian(<<bytes[1] % 32>> \o Tail(bytes))
                 point      == get_point_from_x(x, greatest)
             IN  IF x >= Q THEN Err(<<"InvalidXField">>)
                 ELSE IF ~compressed THEN Err(<<"NotCompressed">>)
                 ELSE IF infinity
                      THEN IF greatest \/ x # 0 THEN Err(<<"InvalidInfinity">>)
                           ELSE Ok(G1Zero)
                 ELSE IF point = <<>> THEN Err(<<"InvalidXCoordinate">>)
                 ELSE IF ~G1InSubgroup(point[1]) THEN Err(<<"InvalidSubgroup">>)
                 ELSE Ok(point[1])

\* G2 decoding: the same flag rules; the x coordinate of the point with
\* discrete logarithm d is written min(d, R - d), the larger root being R - x
parse_g2(hex) ==
    LET ph == parse_hex(hex, G2_BYTES)
    IN  IF ph.kind # "Ok" THEN ph
        ELSE LET bytes      == ph.value
                 compressed == (bytes[1] \div 128) % 2 = 1
                 infinity   == (bytes[1] \div 64) % 2 = 1
                 greatest   == (bytes[1] \div 32) % 2 = 1
                 x          == BigEndian(<<bytes[1] % 32>> \o Tail(bytes))
             IN  IF x >= Q * Q THEN Err(<<"InvalidXField">>)
                 ELSE IF ~compressed THEN Err(<<"NotCompressed">>)
                 ELSE IF infinity
                      THEN IF greatest \/ x # 0 THEN Err(<<"InvalidInfinity">>)
                           ELSE Ok(G2Zero)
                 ELSE IF x = 0 \/ 2 * x > R THEN Err(<<"InvalidXCoordinate">>)
                 ELSE Ok(IF greatest THEN R - x ELSE x)

-----------------------------------------------------------------------------
(* Wire documents and their parsing (crypto/src/contribution.rs) *)

SIZES == << <<2, 2>>, <<3, 2>>, <<4, 2>>, <<5, 2>> >>

G1GenHex == <<"0", "x", "8", "0", "1", "1">>
G2GenHex == <<"0", "x", "8", "0", "0", "0", "0", "0", "0", "1">>

PowersOfTau_initial(num_g1_powers, num_g2_powers) ==
    [g1_powers |-> [i \in 1 .. num_g1_powers |-> G1GenHex],
     g2_powers |-> [i \in 1 .. num_g2_powers |-> G2GenHex]]

\* pot_pubkey: None is <<>>, Some(s) is <<s>>
ContributionJson_initial(num_g1_powers, num_g2_powers) ==
    [num_g1_powers |-> num_g1_powers,
     num_g2_powers |-> num_g2_powers,
     powers_of_tau |-> PowersOfTau_initial(num_g1_powers, num_g2_powers),
     pot_pubkey    |-> <<>>]

ContributionsJson_initial ==
    [sub_contributions |->
        [i \in 1 .. Len(SIZES) |-> ContributionJson_initial(SIZES[i][1], SIZES[i][2])]]

\* index (from 0) of the first element that is not Ok, or -1
FirstBad(results) ==
    IF \A i \in 1 .. Len(results) : results[i].kind = "Ok" THEN -1
    ELSE (CHOOSE i \in 1 .. Len(results) :
            /\ results[i].kind # "Ok"
            /\ \A j \in 1 .. i - 1 : results[j].kind = "Ok") - 1

\* the array lengths are not compared with the declared counts
ContributionJson_parse_mut(self) ==
    LET g1s == [i \in 1 .. Len(self.powers_of_tau.g1_powers) |->
                    parse_g1(self.powers_of_tau.g1_powers[i])]
        g2s == [i \in 1 .. Len(self.powers_of_tau.g2_powers) |->
                    parse_g2(self.powers_of_tau.g2_powers[i])]
        pk  == IF self.pot_pubkey # <<>> THEN parse_g2(self.pot_pubkey[1]) ELSE Ok(G2Zero)
        b1  == FirstBad(g1s)
        b2  == FirstBad(g2s)
    IN  IF b1 >= 0 THEN Err(<<"InvalidG1Power", b1, g1s[b1 + 1].error>>)
        ELSE IF b2 >= 0 THEN Err(<<"InvalidG2Power", b2, g2s[b2 + 1].error>>)
        ELSE IF pk.kind # "Ok" THEN Err(<<"InvalidPubKey", pk.error>>)
        ELSE Ok([pubkey    |-> pk.value,
                 g1_powers |-> [i \in 1 .. Len(g1s) |-> g1s[i].value],
                 g2_powers |-> [i \in 1 .. Len(g2s) |-> g2s[i].value]])

ContributionJson_parse(self) ==
    LET g1s == [i \in 1 .. Len(self.powers_of_tau.g1_powers) |->
                    parse_g1(self.powers_of_tau.g1_powers[i])]
        g2s == [i \in 1 .. Len(self.powers_of_tau.g2_powers) |->
                    parse_g2(self.powers_of_tau.g2_powers[i])]
        pk  == IF self.pot_pubkey # <<>> THEN parse_g2(self.pot_pubkey[1]) ELSE Ok(G2Zero)
        b1  == FirstBad(g1s)
        b2  == FirstBad(g2s)
    IN  IF Len(self.powers_of_tau.g1_powers) # self.num_g1_powers
        THEN Err(<<"InconsistentNumG1Powers", self.num_g1_powers,
                   Len(self.powers_of_tau.g1_powers)>>)
        ELSE IF Len(self.powers_of_tau.g2_powers) # self.num_g2_powers
        THEN Err(<<"InconsistentNumG2Powers", self.num_g2_powers,
                   Len(self.powers_of_tau.g2_powers)>>)
        ELSE IF b1 >= 0 THEN Err(<<"InvalidG1Power", b1, g1s[b1 + 1].error>>)
        ELSE IF b2 >= 0 THEN Err(<<"InvalidG2Power", b2, g2s[b2 + 1].error>>)
        ELSE IF pk.kind # "Ok" THEN Err(<<"InvalidPubKey", pk.error>>)
        ELSE Ok([pubkey    |-> pk.value,
                 g1_powers |-> [i \in 1 .. Len(g1s) |-> g1s[i].value],
                 g2_powers |-> [i \in 1 .. Len(g2s) |-> g2s[i].value]])

ContributionsJson_parse(self) ==
    LET subs   == self.sub_contributions
        shape  == [i \in 1 .. Len(subs) |->
                    IF subs[i].num_g1_powers # SIZES[i][1]
                    THEN Err(<<"UnexpectedNumG1Powers", SIZES[i][1], subs[i].num_g1_powers>>)
                    ELSE IF subs[i].num_g2_powers # SIZES[i][2]
                    THEN Err(<<"UnexpectedNumG1Powers", SIZES[i][1], subs[i].num_g1_powers>>)
                    ELSE Ok(<<>>)]
        parsed == [i \in 1 .. Len(subs) |-> ContributionJson_parse(subs[i])]
    IN  IF Len(subs) # Len(SIZES)
        THEN Err(<<"InvalidContributionCount", 4, Len(subs)>>)
        ELSE IF FirstBad(shape) >= 0
        THEN Err(<<"InvalidContribution", FirstBad(shape), shape[FirstBad(shape) + 1].error>>)
        ELSE IF FirstBad(parsed) >= 0
        THEN Err(<<"InvalidContribution", FirstBad(parsed), parsed[FirstBad(parsed) + 1].error>>)
        ELSE Ok([i \in 1 .. Len(subs) |-> parsed[i].value])

-----------------------------------------------------------------------------
(* Transcript, Contribution, add_tau and verify (crypto/src/contribution.rs) *)

MaxClass == 2
MaxUpdates == 1

Transcript_new(num_g1, num_g2) ==
    [pubkeys   |-> <<G2Gen>>,
     products  |-> <<G1Gen>>,
     g1_powers |-> [i \in 1 .. num_g1 |-> G1Gen],
     g2_powers |-> [i \in 1 .. num_g2 |-> G2Gen]]

Contribution_new(num_g1, num_g2) ==
    [pubkey    |-> G2Gen,
     g1_powers |-> [i \in 1 .. num_g1 |-> G1Gen],
     g2_powers |-> [i \in 1 .. num_g2 |-> G2Gen]]

Max(a, b) == IF a >= b THEN a ELSE b
Min(a, b) == IF a <= b THEN a ELSE b

\* the table starts at tau instead of one
pow_table_mut(tau, n) == [i \in 1 .. Max(n, 1) |-> (tau ^ i) % R]

\* powers.push(1), then n - 1 times: pow_tau *= tau; powers.push(pow_tau)
RECURSIVE pow_table(_, _)
pow_table(tau, n) ==
    IF n <= 1 THEN <<1>>
    ELSE LET p == pow_table(tau, n - 1) IN Append(p, FrMul(p[Len(p)], tau))

\* every element is multiplied by the second scalar of the table
mul_g1_mut(self, scalars) ==
    [i \in 1 .. Min(Len(self.g1_powers), Len(scalars)) |->
        g1_mul_glv(self.g1_powers[i], scalars[Min(2, Len(scalars))])]

mul_g1(self, scalars) ==
    [i \in 1 .. Min(Len(self.g1_powers), Len(scalars)) |->
        g1_mul_glv(self.g1_powers[i], scalars[i])]

\* every element is multiplied by the second scalar of the table
mul_g2_mut(self, scalars) ==
    [i \in 1 .. Min(Len(self.g2_powers), Len(scalars)) |->
        G2Mul(self.g2_powers[i], scalars[Min(2, Len(scalars))])]

mul_g2(self, scalars) ==
    [i \in 1 .. Min(Len(self.g2_powers), Len(scalars)) |->
        G2Mul(self.g2_powers[i], scalars[i])]

\* the pubkey is made from the generator, not from the pubkey held before
add_tau_mut(self, tau) ==
    LET n_tau  == Max(Len(self.g1_powers), Len(self.g2_powers))
        powers == pow_table(tau, n_tau)
    IN  [pubkey    |-> G2Mul(G2Gen, tau),
         g1_powers |-> mul_g1(self, SubSeq(powers, 1, Len(self.g1_powers))),
         g2_powers |-> mul_g2(self, SubSeq(powers, 1, Len(self.g2_powers)))]

add_tau(self, tau) ==
    LET n_tau  == Max(Len(self.g1_powers), Len(self.g2_powers))
        powers == pow_table(tau, n_tau)
    IN  [pubkey    |-> G2Mul(self.pubkey, tau),
         g1_powers |-> mul_g1(self, SubSeq(powers, 1, Len(self.g1_powers))),
         g2_powers |-> mul_g2(self, SubSeq(powers, 1, Len(self.g2_powers)))]

\* Memory that held the secret or a power of it, as add_tau leaves it on
\* return.  A Zeroizing<_> is overwritten with zeros when dropped; a plain Fr
\* copy (a by-value argument, the caller's own tau behind the & reference)
\* is left as it was last written.
ZeroizingDrop(v) == 0
ZeroizingDropVec(v) == [i \in 1 .. Len(v) |-> ZeroizingDrop(v[i])]
PlainDrop(v) == v

add_tau_memory(self, tau) ==
    LET n_tau  == Max(Len(self.g1_powers), Len(self.g2_powers))
        powers == pow_table(tau, n_tau)
    IN  [powers     |-> ZeroizingDropVec(powers),
         pow_tau    |-> ZeroizingDrop(powers[Len(powers)]),
         g1_scalars |-> PlainDrop(SubSeq(powers, 1, Len(self.g1_powers))),
         g2_scalars |-> PlainDrop(SubSeq(powers, 1, Len(self.g2_powers))),
         pubkey_tau |-> PlainDrop(tau),
         caller_tau |-> PlainDrop(tau)]

NoMemory ==
    [powers |-> <<>>, pow_tau |-> 0, g1_scalars |-> <<>>, g2_scalars |-> <<>>,
     pubkey_tau |-> 0, caller_tau |-> 0]

\* random_factors: n uniform scalars r; the factors handed on are the raw
\* Montgomery limbs r.0 = r * 2^(4 limbs) mod R, the sum is the sum of the r
MontR == (LIMB * LIMB * LIMB * LIMB) % R

\* the sum of the scalars is never accumulated
random_factors_mut(rs) ==
    [factors |-> [i \in 1 .. Len(rs) |-> (rs[i] * MontR) % R],
     sum     |-> 0]

random_factors(rs) ==
    [factors |-> [i \in 1 .. Len(rs) |-> (rs[i] * MontR) % R],
     sum     |-> IF rs = <<>> THEN 0
                 ELSE LET RECURSIVE Sum(_)
                          Sum(q) == IF q = <<>> THEN 0 ELSE FrAdd(q[1], Sum(Tail(q)))
                      IN  Sum(rs)]

\* VariableBaseMSM::multi_scalar_mul: sum of [scalars[i]] bases[i] over the
\* common length
RECURSIVE G1Msm(_, _)
G1Msm(bases, scalars) ==
    IF bases = <<>> \/ scalars = <<>> THEN G1Zero
    ELSE G1Add(G1Mul(bases[1], scalars[1]), G1Msm(Tail(bases), Tail(scalars)))

RECURSIVE G2Msm(_, _)
G2Msm(bases, scalars) ==
    IF bases = <<>> \/ scalars = <<>> THEN G2Zero
    ELSE G2Add(G2Mul(bases[1], scalars[1]), G2Msm(Tail(bases), Tail(scalars)))

\* a pubkey that is the identity is refused
verify_pubkey_mut(self, prev_product) ==
    IF Len(self.g1_powers) < 2 THEN "panic_index"
    ELSE IF /\ self.pubkey # G2Zero
            /\ Pairing(self.g1_powers[2], G2Gen) = Pairing(prev_product, self.pubkey)
    THEN "ok" ELSE "panic_verify_pubkey"

verify_pubkey(self, prev_product) ==
    IF Len(self.g1_powers) < 2 THEN "panic_index"
    ELSE IF Pairing(self.g1_powers[2], G2Gen) = Pairing(prev_product, self.pubkey)
    THEN "ok" ELSE "panic_verify_pubkey"

\* rs: the Len(g1_powers) - 1 scalars drawn by random_factors
verify_g1(self, rs) ==
    LET rf     == random_factors(rs)
        lhs_g1 == G1Msm(Tail(self.g1_powers), rf.factors)
        lhs_g2 == G2Mul(G2Gen, rf.sum)
        rhs_g1 == G1Msm(SubSeq(self.g1_powers, 1, Len(rf.factors)), rf.factors)
        rhs_g2 == G2Mul(self.g2_powers[2], rf.sum)
    IN  IF Len(self.g1_powers) = 0 THEN "panic_underflow"
        ELSE IF Len(self.g2_powers) < 2 THEN "panic_index"
        ELSE IF Pairing(lhs_g1, lhs_g2) = Pairing(rhs_g1, rhs_g2)
        THEN "ok" ELSE "panic_verify_g1"

\* rs: the Len(g2_powers) scalars drawn by random_factors
verify_g2(self, rs) ==
    LET rf     == random_factors(rs)
        lhs_g1 == G1Msm(SubSeq(self.g1_powers, 1, Len(rf.factors)), rf.factors)
        lhs_g2 == G2Mul(G2Gen, rf.sum)
        rhs_g1 == G1Mul(G1Gen, rf.sum)
        rhs_g2 == G2Msm(self.g2_powers, rf.factors)
    IN  IF Len(rf.factors) > Len(self.g1_powers) THEN "panic_index"
        ELSE IF Pairing(lhs_g1, lhs_g2) = Pairing(rhs_g1, rhs_g2)
        THEN "ok" ELSE "panic_verify_g2"

Draws(n) == [1 .. n -> Fr]

ProtoInit ==
    /\ \E i \in 1 .. MaxClass :
          /\ transcript = Transcript_new(SIZES[i][1], SIZES[i][2])
          /\ \/ /\ origin = "new"
                /\ contribution = Contribution_new(SIZES[i][1], SIZES[i][2])
             \/ /\ origin = "parsed"
                /\ contribution = ContributionsJson_parse(ContributionsJson_initial).value[i]
    /\ taus = <<>>
    /\ tampered = 0
    /\ vpc = "idle"
    /\ outcome = "none"
    /\ mem = NoMemory

ProtoIdle ==
    /\ contribution = Contribution_new(0, 0)
    /\ transcript = Transcript_new(0, 0)
    /\ origin = "new"
    /\ taus = <<>>
    /\ tampered = 0
    /\ vpc = "idle"
    /\ outcome = "none"
    /\ mem = NoMemory

\* contribution.add_tau(&tau)
AddTau(tau) ==
    /\ vpc = "idle"
    /\ tampered = 0
    /\ Len(taus) < MaxUpdates
    /\ contribution' = add_tau(contribution, tau)
    /\ mem' = add_tau_memory(contribution, tau)
    /\ taus' = Append(taus, tau)
    /\ outcome' = "none"
    /\ UNCHANGED <<transcript, origin, tampered, vpc>>

\* one element of g1_powers is replaced by another point of the subgroup
Tamper(k, point) ==
    /\ vpc = "idle"
    /\ tampered = 0
    /\ Len(taus) = 1
    /\ k \in 1 .. Len(contribution.g1_powers)
    /\ point # contribution.g1_powers[k]
    /\ contribution' = [contribution EXCEPT !.g1_powers[k] = point]
    /\ tampered' = k
    /\ outcome' = "none"
    /\ UNCHANGED <<transcript, origin, taus, vpc, mem>>

\* contribution.verify(&transcript): the two length assertions and
\* verify_pubkey, then verify_g1, then verify_g2, each with its own draw;
\* a failed assertion ends the call with a panic
VerifyPubkey ==
    /\ vpc = "idle"
    /\ LET r == IF Len(contribution.g1_powers) # Len(transcript.g1_powers)
                   \/ Len(contribution.g2_powers) # Len(transcript.g2_powers)
                THEN "panic_length"
                ELSE IF transcript.products = <<>> THEN "panic_unwrap"
                ELSE verify_pubkey(contribution,
                                   transcript.products[Len(transcript.products)])
       IN  /\ vpc' = IF r = "ok" THEN "g1" ELSE "idle"
           /\ outcome' = IF r = "ok" THEN "none" ELSE r
    /\ UNCHANGED <<contribution, transcript, origin, taus, tampered, mem>>

VerifyG1(rs) ==
    /\ vpc = "g1"
    /\ LET r == verify_g1(contribution, rs)
       IN  /\ vpc' = IF r = "ok" THEN "g2" ELSE "idle"
           /\ outcome' = IF r = "ok" THEN "none" ELSE r
    /\ UNCHANGED <<contribution, transcript, origin, taus, tampered, mem>>

VerifyG2(rs) ==
    /\ vpc = "g2"
    /\ vpc' = "idle"
    /\ outcome' = verify_g2(contribution, rs)
    /\ UNCHANGED <<contribution, transcript, origin, taus, tampered, mem>>

-----------------------------------------------------------------------------
(* SpecCodec: parse_g1 on every two-byte string and on malformed ones *)

HexDigits == {HexChars[i] : i \in 1 .. 16}

G1HexInputs ==
    {<<"0", "x", a, b, c, d>> : a \in HexDigits, b \in HexDigits,
                                 c \in HexDigits, d \in HexDigits}
    \cup { <<"0", "x", "8", "0", "1">>,
           <<"0", "x", "8", "0", "1", "1", "0", "0">>,
           <<"8", "0", "1", "1", "0", "0">>,
           <<"0", "x", "C", "0", "0", "0">>,
           <<"0", "x", "8", "0", "1", "g">>,
           <<"0", "é", "0", "0", "0">>,
           <<"é", "8", "0", "0", "0">>,
           <<"0", "x", "é", "0", "0">>,
           <<"0", "x", "é">> }

\* one call of parse_g1
ParseG1(hex) ==
    /\ hex_out = NoCall
    /\ hex_in' = hex
    /\ hex_out' = parse_g1(hex)

\* flags and x coordinate written in a two-byte string 0x....
FlagsOf(hex) ==
    LET b == 16 * HexVal(hex[3]) + HexVal(hex[4])
    IN  [compressed |-> (b \div 128) % 2 = 1,
         infinity   |-> (b \div 64) % 2 = 1,
         greatest   |-> (b \div 32) % 2 = 1]
XOf(hex) ==
    256 * ((16 * HexVal(hex[3]) + HexVal(hex[4])) % 32)
        + 16 * HexVal(hex[5]) + HexVal(hex[6])
WellFormed(hex) ==
    /\ Len(hex) = 2 + 2 * G1_BYTES
    /\ hex[1] = "0" /\ hex[2] = "x"
    /\ \A i \in 3 .. Len(hex) : IsHexChar(hex[i])

-----------------------------------------------------------------------------
(* SpecDoc: the genesis document, changed in up to MaxEdits places, parsed  *)

MaxEdits == 2

\* strings put in place of a power: the generator, the identity, x = 0
\* without the infinity flag, and a string that is too short
InfinityHex == <<"0", "x", "c", "0", "0", "0">>
ZeroXHex == <<"0", "x", "8", "0", "0", "0">>
ShortHex == <<"0", "x", "8", "0">>
PowerStrings == {G1GenHex, InfinityHex, ZeroXHex, ShortHex}

DocInit ==
    /\ doc = ContributionsJson_initial
    /\ edits = 0
    /\ doc_out = NoCall

DocIdle ==
    /\ doc = [sub_contributions |-> <<>>]
    /\ edits = 0
    /\ doc_out = NoCall

Edit(d) ==
    /\ edits < MaxEdits
    /\ d # doc
    /\ doc' = d
    /\ edits' = edits + 1
    /\ doc_out' = NoCall

Subs == doc.sub_contributions

\* the declared counts are changed
DeclareG1(i, n) == Edit([doc EXCEPT !.sub_contributions[i].num_g1_powers = n])
DeclareG2(i, n) == Edit([doc EXCEPT !.sub_contributions[i].num_g2_powers = n])

\* a power string is appended, removed or replaced
PushG1(i, hex) ==
    Edit([doc EXCEPT !.sub_contributions[i].powers_of_tau.g1_powers = Append(@, hex)])
PopG1(i) ==
    /\ Subs[i].powers_of_tau.g1_powers # <<>>
    /\ Edit([doc EXCEPT !.sub_contributions[i].powers_of_tau.g1_powers =
                            SubSeq(@, 1, Len(@) - 1)])
PushG2(i) ==
    Edit([doc EXCEPT !.sub_contributions[i].powers_of_tau.g2_powers = Append(@, G2GenHex)])
PopG2(i) ==
    /\ Subs[i].powers_of_tau.g2_powers # <<>>
    /\ Edit([doc EXCEPT !.sub_contributions[i].powers_of_tau.g2_powers =
                            SubSeq(@, 1, Len(@) - 1)])
SetG1(i, k, hex) ==
    /\ k \in 1 .. Len(Subs[i].powers_of_tau.g1_powers)
    /\ Edit([doc EXCEPT !.sub_contributions[i].powers_of_tau.g1_powers[k] = hex])
SetPubkey(i, hex) ==
    Edit([doc EXCEPT !.sub_contributions[i].pot_pubkey = <<hex>>])

\* a sub-contribution is removed from, or one more added to, the document
DropSub ==
    /\ Subs # <<>>
    /\ Edit([doc EXCEPT !.sub_contributions = SubSeq(@, 1, Len(@) - 1)])
AddSub ==
    Edit([doc EXCEPT !.sub_contributions =
              Append(@, ContributionJson_initial(SIZES[1][1], SIZES[1][2]))])

\* doc.parse()
Parse ==
    /\ doc_out = NoCall
    /\ doc_out' = ContributionsJson_parse(doc)
    /\ UNCHANGED <<doc, edits>>

-----------------------------------------------------------------------------
(* SpecSchema: threads calling ContributionsJson::from_json with the       *)
(* schema-validation feature (json_schema.rs, contribution.rs)             *)

NumThreads == 2
MaxCalls == 2

Threads == 1 .. NumThreads

\* what a caller may hand to from_json
JsonInputs == {"not_json", "schema_invalid", "not_deserializable", "valid"}

\* CONTRIBUTION_SCHEMA before first use: the Lazy cell is empty
SchemaUninit == [cell |-> "uninit", value |-> "none", compiled |-> 0]

SchemaInit ==
    /\ schema = SchemaUninit
    /\ mutex = 0
    /\ tpc = [t \in Threads |-> [pc |-> "idle", json |-> "none", ret |-> "none", calls |-> 0]]

SchemaIdle ==
    /\ schema = SchemaUninit
    /\ mutex = 0
    /\ tpc = <<>>

\* a Lazy cell that lets a second thread run the initializer while the
\* first is still in it
lazy_force_mut(cell) ==
    CASE cell = "uninit"  -> "init"
      [] cell = "running" -> "init"
      [] cell = "ready"   -> "get"

\* once_cell::sync::Lazy deref: the first thread runs the initializer, the
\* others wait until it is done, later ones get the value
lazy_force(cell) ==
    CASE cell = "uninit"  -> "init"
      [] cell = "running" -> "wait"
      [] cell = "ready"   -> "get"

\* Mutex::lock: granted when nobody holds it
mutex_lock(holder, t) == IF holder = 0 THEN <<t>> ELSE <<>>

\* serde_json::from_str(json): an input that is no JSON returns
\* Err(InvalidSchema) before the schema is touched
FromJsonStart(t, json) ==
    /\ tpc[t].pc = "idle"
    /\ tpc[t].calls < MaxCalls
    /\ tpc' = [tpc EXCEPT ![t] =
                  IF json = "not_json"
                  THEN [pc |-> "idle", json |-> json, ret |-> "Err_InvalidSchema",
                        calls |-> @.calls + 1]
                  ELSE [pc |-> "deref", json |-> json, ret |-> "none",
                        calls |-> @.calls + 1]]
    /\ UNCHANGED <<schema, mutex>>

\* CONTRIBUTION_SCHEMA is dereferenced
SchemaDeref(t) ==
    /\ tpc[t].pc = "deref"
    /\ LET how == lazy_force(schema.cell)
       IN  /\ how # "wait"
           /\ IF how = "init"
              THEN /\ schema' = [schema EXCEPT !.cell = "running"]
                   /\ tpc' = [tpc EXCEPT ![t].pc = "compile"]
              ELSE /\ tpc' = [tpc EXCEPT ![t].pc = "lock"]
                   /\ UNCHANGED schema
    /\ UNCHANGED mutex

\* the initializer: the schema text is loaded and compiled, Mutex::new
SchemaCompile(t) ==
    /\ tpc[t].pc = "compile"
    /\ schema' = [cell |-> "ready", value |-> "compiled",
                  compiled |-> schema.compiled + 1]
    /\ tpc' = [tpc EXCEPT ![t].pc = "lock"]
    /\ UNCHANGED mutex

\* .lock().unwrap()
SchemaLock(t) ==
    /\ tpc[t].pc = "lock"
    /\ mutex_lock(mutex, t) # <<>>
    /\ mutex' = mutex_lock(mutex, t)[1]
    /\ tpc' = [tpc EXCEPT ![t].pc = "validate"]
    /\ UNCHANGED schema

\* ScopedSchema::new(&scope, &schema).validate(&json): the schema is read
\* through a shared reference; the guard is dropped at the end of the
\* statement; then the result is reported
SchemaValidate(t) ==
    /\ tpc[t].pc = "validate"
    /\ mutex' = IF mutex = t THEN 0 ELSE mutex
    /\ tpc' = [tpc EXCEPT ![t] =
                  [@ EXCEPT !.pc = "idle",
                            !.ret = IF tpc[t].json = "valid" /\ schema.value = "compiled"
                                    THEN "Ok" ELSE "Err_InvalidSchema"]]
    /\ UNCHANGED schema

-----------------------------------------------------------------------------
(* SpecTrust: contributions holding points outside the prime subgroup,     *)
(* Contribution::subgroup_check and verify                                 *)

\* subgroup_check.rs: psi(P) = -[z^2]P, with the early exit on [z]P = P
g1_subgroup_check(p) ==
    LET x_times_p == G1MulBits(p, Z)
    IN  IF x_times_p = p /\ ~p.infinity THEN FALSE
        ELSE G1Neg(G1MulBits(x_times_p, Z)) = g1_endomorphism(p)

\* G2 elements are written by discrete logarithm: all are in the subgroup
g2_subgroup_check(point) == point \in G2

\* Contribution::subgroup_check: three assertions
subgroup_check(self) ==
    IF /\ g2_subgroup_check(self.pubkey)
       /\ \A i \in 1 .. Len(self.g1_powers) : g1_subgroup_check(self.g1_powers[i])
       /\ \A i \in 1 .. Len(self.g2_powers) : g2_subgroup_check(self.g2_powers[i])
    THEN "ok" ELSE "panic_subgroup"

\* the points of order 3
Torsion == {P \in G1Points : ~P.infinity /\ G1MulBits(P, 3) = G1Zero}

\* a point of order 3 is added to one element of g1_powers
Inject(k, T) ==
    /\ vpc = "idle"
    /\ tampered = 0
    /\ k \in 1 .. Len(contribution.g1_powers)
    /\ contribution' = [contribution EXCEPT !.g1_powers[k] = G1Add(@, T)]
    /\ tampered' = k
    /\ outcome' = "none"
    /\ checked' = "none"
    /\ UNCHANGED <<transcript, origin, taus, vpc, mem>>

\* contribution.subgroup_check()
SubgroupCheck ==
    /\ vpc = "idle"
    /\ checked = "none"
    /\ checked' = subgroup_check(contribution)
    /\ UNCHANGED protoVars

-----------------------------------------------------------------------------
(* SpecCompose: sequences of add_tau calls on genesis contributions and on  *)
(* contributions of other subgroup points                                  *)

MaxSteps == 2

\* the genesis contribution of each size class, made by Contribution::new or
\* parsed from the genesis document
Genesis ==
    {Contribution_new(SIZES[i][1], SIZES[i][2]) : i \in 1 .. MaxClass}
    \cup {ContributionsJson_parse(ContributionsJson_initial).value[i] : i \in 1 .. MaxClass}

\* contributions of the first size class as a parsed document can hold them:
\* any points of the subgroups
Skewed ==
    {[pubkey    |-> p,
      g1_powers |-> <<G1Mul(G1Gen, k1), G1Mul(G1Gen, k2)>>,
      g2_powers |-> <<G2Mul(G2Gen, m1), G2Mul(G2Gen, m2)>>] :
        p \in {0, 1, 5}, k1 \in {0, 1, 3}, k2 \in {0, 2}, m1 \in {1, 4}, m2 \in {0, 7}}

ComposeInit ==
    /\ base \in Genesis \cup Skewed
    /\ contribution = base
    /\ transcript = Transcript_new(Len(base.g1_powers), Len(base.g2_powers))
    /\ origin = "new"
    /\ taus = <<>>
    /\ tampered = 0
    /\ vpc = "idle"
    /\ outcome = "none"
    /\ mem = NoMemory
    /\ draw = <<>>

\* contribution.add_tau(&tau), up to MaxSteps times in a row
AddTauStep(tau) ==
    /\ Len(taus) < MaxSteps
    /\ contribution' = add_tau(contribution, tau)
    /\ mem' = add_tau_memory(contribution, tau)
    /\ taus' = Append(taus, tau)
    /\ UNCHANGED <<transcript, origin, tampered, vpc, outcome, base, draw>>

-----------------------------------------------------------------------------
(* SpecVerify: one call of verify on contributions and transcripts of any   *)
(* lengths, the transcript holding any contents                            *)

MaxLen == 3

\* the scalars the draws are taken from in this specification
DrawValues == {0, 1, 5}
DrawsFrom(n) == [1 .. n -> DrawValues]

\* reads the first product instead of the last
verify_start_mut(self, t) ==
    IF Len(self.g1_powers) # Len(t.g1_powers)
       \/ Len(self.g2_powers) # Len(t.g2_powers)
    THEN "panic_length"
    ELSE IF t.products = <<>> THEN "panic_unwrap"
    ELSE verify_pubkey(self, t.products[1])

\* verify up to and including verify_pubkey: the two assert_eq! on the
\* lengths, products.last().unwrap(), the pubkey equation
verify_start(self, t) ==
    IF Len(self.g1_powers) # Len(t.g1_powers)
       \/ Len(self.g2_powers) # Len(t.g2_powers)
    THEN "panic_length"
    ELSE IF t.products = <<>> THEN "panic_unwrap"
    ELSE verify_pubkey(self, t.products[Len(t.products)])

\* the whole of verify; rs1 and rs2 are what random_factors draws inside
\* verify_g1 and verify_g2
verify(self, t, rs1, rs2) ==
    LET p == verify_start(self, t)
    IN  IF p # "ok" THEN p
        ELSE LET a == verify_g1(self, rs1)
             IN  IF a # "ok" THEN a ELSE verify_g2(self, rs2)

\* transcripts with power sequences of the given lengths
TranscriptInputs(num_g1, num_g2) ==
    {[pubkeys   |-> IF fill = "gen" THEN <<G2Gen>> ELSE <<>>,
      products  |-> pr,
      g1_powers |-> [i \in 1 .. num_g1 |-> IF fill = "gen" THEN G1Gen ELSE G1Zero],
      g2_powers |-> [i \in 1 .. num_g2 |-> IF fill = "gen" THEN G2Gen ELSE G2Zero]] :
        fill \in {"gen", "zero"},
        pr \in {<<>>, <<G1Gen>>, <<G1Zero, G1Gen>>, <<G1Gen, G1Mul(G1Gen, 2)>>}}

\* a fresh contribution of any lengths, or one that add_tau was applied to
ContributionInputs(num_g1, num_g2) ==
    {Contribution_new(num_g1, num_g2)}
    \cup {add_tau(Contribution_new(num_g1, num_g2), tau) : tau \in {0, 2}}

VerifyInit ==
    /\ \E num_g1 \in 0 .. MaxLen, num_g2 \in 0 .. MaxLen :
          /\ contribution \in ContributionInputs(num_g1, num_g2)
          /\ transcript \in TranscriptInputs(num_g1, num_g2)
    /\ base = contribution
    /\ origin = "new"
    /\ taus = <<>>
    /\ tampered = 0
    /\ vpc = "idle"
    /\ outcome = "none"
    /\ mem = NoMemory
    /\ draw = <<>>

\* contribution.verify(&transcript) from call to return or panic
Verify ==
    /\ outcome = "none"
    /\ \/ /\ verify_start(contribution, transcript) # "ok"
          /\ draw' = << <<>>, <<>> >>
          /\ outcome' = verify(contribution, transcript, <<>>, <<>>)
       \/ /\ verify_start(contribution, transcript) = "ok"
          /\ \E rs1 \in DrawsFrom(Len(contribution.g1_powers) - 1),
                rs2 \in DrawsFrom(Len(contribution.g2_powers)) :
                /\ draw' = <<rs1, rs2>>
                /\ outcome' = verify(contribution, transcript, rs1, rs2)
    /\ UNCHANGED <<contribution, transcript, origin, taus, tampered, vpc, mem, base>>

-----------------------------------------------------------------------------
(* Specifications *)

Init == ProtoInit /\ BatchIdle /\ GlvIdle /\ CodecIdle /\ DocIdle /\ SchemaIdle /\ TrustIdle /\ RunIdle

Next ==
    \/ \E tau \in Fr : AddTau(tau) /\ UNCHANGED notProto
    \/ \E k \in 1 .. Len(contribution.g1_powers), point \in G1Subgroup :
          Tamper(k, point) /\ UNCHANGED notProto
    \/ VerifyPubkey /\ UNCHANGED notProto
    \/ \E rs \in Draws(Len(contribution.g1_powers) - 1) :
          VerifyG1(rs) /\ UNCHANGED notProto
    \/ \E rs \in Draws(Len(contribution.g2_powers)) :
          VerifyG2(rs) /\ UNCHANGED notProto

Spec == Init /\ [][Next]_vars

InitBatch == ProtoIdle /\ BatchInit /\ GlvIdle /\ CodecIdle /\ DocIdle /\ SchemaIdle /\ TrustIdle /\ RunIdle

NextBatch ==
    \/ \E eq \in CheckInputs, factor \in Fr :
          AddCheckA(eq, factor) /\ UNCHANGED notBatch
    \/ \E eq \in CheckInputs, factor \in Fr :
          AddCheckB(eq, factor) /\ UNCHANGED notBatch
    \/ Merge /\ UNCHANGED notBatch
    \/ Check /\ UNCHANGED notBatch

SpecBatch == InitBatch /\ [][NextBatch]_vars

InitGLV == ProtoIdle /\ BatchIdle /\ GlvIdle /\ CodecIdle /\ DocIdle /\ SchemaIdle /\ TrustIdle /\ RunIdle

NextGLV ==
    \/ \E tau \in Fr : G1Split(tau) /\ UNCHANGED notGlv
    \/ \E p \in G1Points, tau \in Fr :
          G1MulGlv(p, tau) /\ UNCHANGED notGlv

SpecGLV == InitGLV /\ [][NextGLV]_vars

InitCodec == ProtoIdle /\ BatchIdle /\ GlvIdle /\ CodecIdle /\ DocIdle /\ SchemaIdle /\ TrustIdle /\ RunIdle

NextCodec ==
    /\ hex_out = NoCall
    /\ \E hex \in G1HexInputs : ParseG1(hex) /\ UNCHANGED notCodec

SpecCodec == InitCodec /\ [][NextCodec]_vars

InitDoc == ProtoIdle /\ BatchIdle /\ GlvIdle /\ CodecIdle /\ DocInit /\ SchemaIdle /\ TrustIdle /\ RunIdle

NextDoc ==
    \/ \E i \in 1 .. Len(Subs), n \in {SIZES[1][1] - 1, SIZES[Len(SIZES)][1] + 1} :
          DeclareG1(i, n) /\ UNCHANGED notDoc
    \/ \E i \in 1 .. Len(Subs), n \in {SIZES[1][2] - 1, SIZES[1][2] + 1} :
          DeclareG2(i, n) /\ UNCHANGED notDoc
    \/ \E i \in 1 .. Len(Subs), hex \in PowerStrings : PushG1(i, hex) /\ UNCHANGED notDoc
    \/ \E i \in 1 .. Len(Subs) : PopG1(i) /\ UNCHANGED notDoc
    \/ \E i \in 1 .. Len(Subs) : PushG2(i) /\ UNCHANGED notDoc
    \/ \E i \in 1 .. Len(Subs) : PopG2(i) /\ UNCHANGED notDoc
    \/ \E i \in 1 .. Len(Subs), k \in {1, SIZES[1][1]}, hex \in PowerStrings :
          SetG1(i, k, hex) /\ UNCHANGED notDoc
    \/ \E i \in 1 .. Len(Subs), hex \in {G2GenHex, ShortHex} :
          SetPubkey(i, hex) /\ UNCHANGED notDoc
    \/ DropSub /\ UNCHANGED notDoc
    \/ AddSub /\ UNCHANGED notDoc
    \/ Parse /\ UNCHANGED notDoc

SpecDoc == InitDoc /\ [][NextDoc]_vars

InitSchema == ProtoIdle /\ BatchIdle /\ GlvIdle /\ CodecIdle /\ DocIdle /\ SchemaInit /\ TrustIdle /\ RunIdle

NextSchema ==
    \/ \E t \in Threads, json \in JsonInputs : FromJsonStart(t, json) /\ UNCHANGED notSchema
    \/ \E t \in Threads : SchemaDeref(t) /\ UNCHANGED notSchema
    \/ \E t \in Threads : SchemaCompile(t) /\ UNCHANGED notSchema
    \/ \E t \in Threads : SchemaLock(t) /\ UNCHANGED notSchema
    \/ \E t \in Threads : SchemaValidate(t) /\ UNCHANGED notSchema

SpecSchema == InitSchema /\ [][NextSchema]_vars

InitTrust == ProtoInit /\ BatchIdle /\ GlvIdle /\ CodecIdle /\ DocIdle /\ SchemaIdle /\ TrustIdle /\ RunIdle

NextTrust ==
    \/ \E tau \in Fr : AddTau(tau) /\ checked' = "none" /\ UNCHANGED notTrust
    \/ \E k \in 1 .. Len(contribution.g1_powers), T \in Torsion :
          Inject(k, T) /\ UNCHANGED notTrust
    \/ SubgroupCheck /\ UNCHANGED notTrust
    \/ VerifyPubkey /\ UNCHANGED checked /\ UNCHANGED notTrust
    \/ \E rs \in Draws(Len(contribution.g1_powers) - 1) :
          VerifyG1(rs) /\ UNCHANGED checked /\ UNCHANGED notTrust
    \/ \E rs \in Draws(Len(contribution.g2_powers)) :
          VerifyG2(rs) /\ UNCHANGED checked /\ UNCHANGED notTrust

SpecTrust == InitTrust /\ [][NextTrust]_vars

InitCompose == ComposeInit /\ BatchIdle /\ GlvIdle /\ CodecIdle /\ DocIdle /\ SchemaIdle /\ TrustIdle

NextCompose ==
    \E tau \in Fr : AddTauStep(tau)
                    /\ UNCHANGED <<batchVars, glvVars, codecVars, docVars, schemaVars, trustVars>>

SpecCompose == InitCompose /\ [][NextCompose]_vars

InitVerify == VerifyInit /\ BatchIdle /\ GlvIdle /\ CodecIdle /\ DocIdle /\ SchemaIdle /\ TrustIdle

NextVerify ==
    Verify /\ UNCHANGED <<batchVars, glvVars, codecVars, docVars, schemaVars, trustVars>>

SpecVerify == InitVerify /\ [][NextVerify]_vars

\* ======================= properties =======================

(* C7: for every subgroup point P and every scalar s, g1_mul_glv(P, s) is    *)
(* the ordinary multiple [s]P (the identity for s = 0), and the loop value   *)
(* is [k0]P + [k1](-psi(P)) for (k0, k1) = g1_split(s).                       *)
C7_GlvCorrect ==
    (glv_in.op = "mul" /\ glv_in.p \in G1Subgroup) =>
        /\ glv_out.value = G1Mul(glv_in.p, glv_in.tau)
        /\ glv_out.value = G1Add(G1Mul(glv_in.p, glv_out.k0),
                                 G1Mul(G1Neg(g1_endomorphism(glv_in.p)), glv_out.k1))
        /\ (glv_in.tau = 0 => glv_out.value = G1Zero)

C7_Witness ==
    /\ glv_in.op = "mul"
    /\ glv_in.p = G1Gen
    /\ glv_in.tau = 7
    /\ glv_out.k0 = 3 /\ glv_out.k1 = 1
    /\ glv_out.value = G1Mul(G1Gen, 7)

(* C8: g1_split(s) returns the remainder k0 and the quotient k1 of s by the  *)
(* integer G1_LAMBDA_2, so k0 + k1*lambda = s in Fr, and both halves are      *)
(* below the two-limb width: the quotient loses nothing when its two low     *)
(* limbs are taken.                                                          *)
C8_SplitCorrect ==
    glv_in.op = "split" =>
        LET lambda == FromLimbs(G1_LAMBDA_2)
            full   == FromLimbs(div_rem(ToLimbs(glv_in.tau, 4), G1_LAMBDA_2).numerator)
        IN  /\ glv_out.k1 = glv_in.tau \div lambda
            /\ glv_out.k0 = glv_in.tau % lambda
            /\ FrAdd(glv_out.k0 % R, FrMul(glv_out.k1 % R, lambda % R)) = glv_in.tau
            /\ glv_out.k0 < LIMB * LIMB
            /\ glv_out.k1 < LIMB * LIMB
            /\ glv_out.k1 = full

C8_Witness ==
    /\ glv_in.op = "split"
    /\ glv_in.tau = R - 1
    /\ glv_out.k0 = 0
    /\ glv_out.k1 = 3

(* C3: when every equality handed to add_check holds (at least one call, on *)
(* an accumulator from new(), no merge), check() returns true whatever the  *)
(* random scalars were.                                                     *)
C3_Completeness ==
    (result # "none" /\ merges = 0 /\ histA # <<>>
        /\ \A i \in 1 .. Len(histA) : EqHolds(histA[i].eq))
    => result = "true"

\* number of scalar vectors for which check() accepts the given equalities
Eqs(h) == [i \in 1 .. Len(h) |-> h[i].eq]
ReplayWith(eqs, fs) == Replay([i \in 1 .. Len(eqs) |-> [eq |-> eqs[i], factor |-> fs[i]]])
AcceptCount ==
    [eqs \in UNION {[1 .. k -> CheckInputs] : k \in 1 .. MaxChecks} |->
        Cardinality({fs \in [1 .. Len(eqs) -> Fr] : check(ReplayWith(eqs, fs))})] @@ <<>>

(* C4: check() is sound up to a negligible share of the random scalars: when *)
(* some equality added with add_check is false, check() returns true for at  *)
(* most a 2/|Fr| share of the scalar vectors (so never for all of them), and *)
(* the value check() returned is the one those equalities and scalars give.   *)
C4_Soundness ==
    (result # "none" /\ merges = 0 /\ histA # <<>>) =>
        /\ (result = "true") = check(Replay(histA))
        /\ (\E i \in 1 .. Len(histA) : ~EqHolds(histA[i].eq)) =>
               AcceptCount[Eqs(histA)] * R <= 2 * (R ^ Len(histA))

C4_Witness ==
    /\ result = "false"
    /\ merges = 0
    /\ Len(histA) = 2
    /\ EqHolds(histA[1].eq)
    /\ ~EqHolds(histA[2].eq)

(* C5: a BatchPairingCheck fresh from new() has all four running sums equal *)
(* to the identity of their group.                                          *)
C5_NewIsIdentity ==
    (accA # Moved /\ histA = <<>> /\ merges = 0) =>
        /\ accA.lhs = <<G1Zero, G2Zero>>
        /\ accA.rhs = <<G1Zero, G2Zero>>

(* C6: after A.merge(B) the accumulator is the one obtained by doing A's    *)
(* add_check calls and then B's on a single accumulator from new(), with    *)
(* the same scalars; merging a fresh accumulator changes nothing.           *)
C6_MergeIsReplay ==
    (merges = 1 /\ accA # Moved) => accA = Replay(histA)

(* C1: a genesis Contribution from Contribution::new verifies against the   *)
(* genesis Transcript of the same size class, before any update and after  *)
(* add_tau with nonzero secrets, for every draw of the random factors: no  *)
(* step of verify ever fails.                                              *)
C1_UpdateVerifies ==
    (origin = "new" /\ tampered = 0 /\ \A i \in 1 .. Len(taus) : taus[i] # 0)
    => outcome \in {"none", "ok"}

C1_Witness ==
    /\ origin = "new"
    /\ tampered = 0
    /\ Len(taus) = 1
    /\ taus[1] \notin {0, 1}
    /\ outcome = "ok"

\* the draws that each randomized step of verify accepts
AcceptG1(c) == {rs \in Draws(Len(c.g1_powers) - 1) : verify_g1(c, rs) = "ok"}
AcceptG2(c) == {rs \in Draws(Len(c.g2_powers)) : verify_g2(c, rs) = "ok"}

(* C2: after a correct add_tau on a genesis contribution, replacing any one *)
(* g1_powers[k] by a different subgroup point makes verify fail for all but *)
(* a 2/|Fr| share of the draws: the pubkey equation fails outright, or one  *)
(* of the two randomized steps accepts at most that share of its draws.     *)
C2_TamperRejected ==
    (origin = "new" /\ Len(taus) = 1 /\ tampered # 0 /\ vpc = "idle" /\ outcome = "none")
    => \/ verify_pubkey(contribution, transcript.products[Len(transcript.products)]) # "ok"
       \/ Cardinality(AcceptG1(contribution)) * R
             <= 2 * (R ^ (Len(contribution.g1_powers) - 1))
       \/ Cardinality(AcceptG2(contribution)) * R
             <= 2 * (R ^ Len(contribution.g2_powers))

C2_Witness ==
    /\ origin = "new"
    /\ Len(taus) = 1
    /\ taus[1] # 0
    /\ tampered = Len(contribution.g1_powers)
    /\ tampered > 2
    /\ outcome = "panic_verify_g1"

(* C9: after add_tau(tau) on a genesis contribution, however it was made,   *)
(* pubkey is [tau] times the G2 generator.                                  *)
C9_PubkeyIsTauG2 ==
    Len(taus) = 1 => contribution.pubkey = G2Mul(G2Gen, taus[1])

(* C10: when add_tau has returned, every place that held tau or a power of  *)
(* tau during the call holds zeros.                                         *)
C10_SecretWiped ==
    taus # <<>> =>
        /\ \A i \in 1 .. Len(mem.powers) : mem.powers[i] = 0
        /\ mem.pow_tau = 0
        /\ \A i \in 2 .. Len(mem.g1_scalars) : mem.g1_scalars[i] = 0
        /\ \A i \in 2 .. Len(mem.g2_scalars) : mem.g2_scalars[i] = 0
        /\ mem.pubkey_tau = 0
        /\ mem.caller_tau = 0

(* C11: a failed verification is reported to the caller: verify never     *)
(* ends by panicking, whether a pairing equality fails or the lengths       *)
(* differ.                                                                  *)
PanicOutcomes ==
    {"panic_length", "panic_unwrap", "panic_index", "panic_underflow",
     "panic_verify_pubkey", "panic_verify_g1", "panic_verify_g2"}

C11_FailureReported == outcome \notin PanicOutcomes

ShapeOk(d) ==
    /\ Len(d.sub_contributions) = 4
    /\ \A i \in 1 .. Len(d.sub_contributions) :
          LET c == d.sub_contributions[i]
          IN  /\ c.num_g1_powers = SIZES[i][1]
              /\ c.num_g2_powers = SIZES[i][2]
              /\ Len(c.powers_of_tau.g1_powers) = c.num_g1_powers
              /\ Len(c.powers_of_tau.g2_powers) = c.num_g2_powers

(* C13: parse returns Ok only for a document of four sub-contributions      *)
(* whose declared counts are those of the size classes and whose arrays     *)
(* have the declared lengths; a wrong number of sub-contributions gives     *)
(* InvalidContributionCount(4, len) whatever else is wrong; a document of   *)
(* the wrong shape never parses to Ok.                                      *)
C13_ShapeValidated ==
    doc_out # NoCall =>
        /\ doc_out.kind = "Ok" => ShapeOk(doc)
        /\ ~ShapeOk(doc) => doc_out.kind = "Err"
        /\ Len(doc.sub_contributions) # 4 =>
              doc_out = Err(<<"InvalidContributionCount", 4, Len(doc.sub_contributions)>>)

C13_Witness ==
    /\ edits = 2
    /\ Len(doc.sub_contributions) = 3
    /\ doc.sub_contributions[1].num_g1_powers # SIZES[1][1]
    /\ doc_out = Err(<<"InvalidContributionCount", 4, 3>>)

(* C14: when the first sub-contribution with a wrong declared count has its *)
(* G1 count right and its G2 count wrong, parse returns                     *)
(* InvalidContribution(i, UnexpectedNumG2Powers(expected, declared)) with   *)
(* the G2 numbers.                                                          *)
C14_G2CountNamed ==
    (doc_out # NoCall /\ Len(doc.sub_contributions) = 4) =>
        \A i \in 1 .. 4 :
            (/\ \A j \in 1 .. i - 1 :
                    /\ doc.sub_contributions[j].num_g1_powers = SIZES[j][1]
                    /\ doc.sub_contributions[j].num_g2_powers = SIZES[j][2]
             /\ doc.sub_contributions[i].num_g1_powers = SIZES[i][1]
             /\ doc.sub_contributions[i].num_g2_powers # SIZES[i][2])
            => doc_out = Err(<<"InvalidContribution", i - 1,
                               <<"UnexpectedNumG2Powers", SIZES[i][2],
                                 doc.sub_contributions[i].num_g2_powers>> >>)

(* C15, as stated: a well-formed string with the compressed and infinity    *)
(* flags set decodes to the identity when the larger-root flag is clear and *)
(* x = 0, and to Err(InvalidInfinity) in every other case.                  *)
C15_InfinityRuleAsStated ==
    (hex_out # NoCall /\ WellFormed(hex_in)
        /\ FlagsOf(hex_in).compressed /\ FlagsOf(hex_in).infinity) =>
        hex_out = IF ~FlagsOf(hex_in).greatest /\ XOf(hex_in) = 0
                  THEN Ok(G1Zero) ELSE Err(<<"InvalidInfinity">>)

(* C15: a well-formed string with the compressed and infinity flags set and *)
(* x below the field modulus decodes to the identity when the larger-root   *)
(* flag is clear and x = 0, and to Err(InvalidInfinity) otherwise; with x   *)
(* at or above the modulus the result is Err(InvalidXField); the identity   *)
(* is never returned for a string without the infinity flag.                *)
C15_InfinityRule ==
    (hex_out # NoCall /\ WellFormed(hex_in)) =>
        /\ (FlagsOf(hex_in).compressed /\ FlagsOf(hex_in).infinity) =>
              hex_out = IF XOf(hex_in) >= Q THEN Err(<<"InvalidXField">>)
                        ELSE IF ~FlagsOf(hex_in).greatest /\ XOf(hex_in) = 0
                        THEN Ok(G1Zero) ELSE Err(<<"InvalidInfinity">>)
        /\ ~FlagsOf(hex_in).infinity => hex_out # Ok(G1Zero)

C15_Witness ==
    /\ hex_in = InfinityHex
    /\ hex_out = Ok(G1Zero)

(* C16, as stated: decoding the string with the compressed flag set, the    *)
(* infinity flag clear and x = 0 fails with InvalidXCoordinate.             *)
C16_ZeroXAsStated ==
    (hex_out # NoCall /\ hex_in = ZeroXHex) => hex_out = Err(<<"InvalidXCoordinate">>)

(* C16: decoding the string with the compressed flag set, the infinity flag *)
(* clear and x = 0 fails, and the error is InvalidSubgroup: x = 0 is the x  *)
(* coordinate of the two curve points of order 3.                           *)
C16_ZeroXRejected ==
    (hex_out # NoCall /\ hex_in = ZeroXHex) =>
        /\ get_point_from_x(0, FALSE) # <<>>
        /\ hex_out = Err(<<"InvalidSubgroup">>)

C16_Witness ==
    /\ hex_in = ZeroXHex
    /\ hex_out # NoCall
    /\ hex_out.kind = "Err"

(* C17: under every interleaving of from_json calls the schema is compiled  *)
(* at most once, and exactly once before any thread locks or reads it; a    *)
(* thread validates only while it holds the mutex, so at most one validates *)
(* at a time; the compiled schema is not changed afterwards.                *)
C17_SchemaSingleton ==
    /\ schema.compiled <= 1
    /\ schema.cell = "ready" => (schema.compiled = 1 /\ schema.value = "compiled")
    /\ \A t \in DOMAIN tpc :
          /\ tpc[t].pc \in {"lock", "validate"} => schema.cell = "ready"
          /\ tpc[t].pc = "validate" => mutex = t
          /\ tpc[t].ret = "Ok" => schema.cell = "ready"
    /\ Cardinality({t \in DOMAIN tpc : tpc[t].pc = "validate"}) <= 1
    /\ Cardinality({t \in DOMAIN tpc : tpc[t].pc = "compile"}) <= 1

C17_Witness ==
    /\ schema.compiled = 1
    /\ tpc[1].pc = "validate"
    /\ tpc[2].pc = "lock"
    /\ mutex = 1

(* C18: verify succeeds only for a contribution all of whose points pass    *)
(* the subgroup check.                                                      *)
C18_OnlyCheckedAccepted ==
    outcome = "ok" => subgroup_check(contribution) = "ok"

\* tau^i in Fr, with tau^0 = 1 for every tau
TauPower(tau, i) == IF i = 0 THEN 1 ELSE (tau ^ i) % R

(* C19: add_tau(tau) keeps the lengths and the order of g1_powers and       *)
(* g2_powers and multiplies the element at index i of each by tau^i.        *)
C19_AddTauEffect ==
    [][taus' # taus =>
        LET tau == taus'[Len(taus')]
        IN  /\ Len(contribution'.g1_powers) = Len(contribution.g1_powers)
            /\ Len(contribution'.g2_powers) = Len(contribution.g2_powers)
            /\ \A i \in 1 .. Len(contribution.g1_powers) :
                  contribution'.g1_powers[i]
                      = G1Mul(contribution.g1_powers[i], TauPower(tau, i - 1))
            /\ \A i \in 1 .. Len(contribution.g2_powers) :
                  contribution'.g2_powers[i]
                      = G2Mul(contribution.g2_powers[i], TauPower(tau, i - 1))]_vars

C19_Witness ==
    /\ Len(taus) = 1
    /\ taus[1] = 2
    /\ Len(contribution.g1_powers) = 3
    /\ contribution.g1_powers[3] = G1Mul(G1Gen, 4)
    /\ contribution.g2_powers[2] = G2Mul(G2Gen, 2)

\* the equality of the verification protocol for the G1 powers, on the
\* drawn scalars themselves
G1EqualityAsSpecified(c, rs) ==
    Pairing(G1Msm(Tail(c.g1_powers), rs), G2Gen)
        = Pairing(G1Msm(SubSeq(c.g1_powers, 1, Len(rs)), rs), c.g2_powers[2])

(* C20: for every draw of the scalars, verify_g1 accepts exactly when the   *)
(* specified equality holds for that draw, draws of sum zero included.      *)
C20_VerifyG1AsSpecified ==
    (vpc = "idle" /\ Len(contribution.g1_powers) >= 2 /\ Len(contribution.g2_powers) >= 2) =>
        \A rs \in Draws(Len(contribution.g1_powers) - 1) :
            (verify_g1(contribution, rs) = "ok") = G1EqualityAsSpecified(contribution, rs)


(* C21: whatever secrets add_tau was called with on a genesis contribution, *)
(* zero included, g1_powers[0] and g2_powers[0] are the generators of their *)
(* groups.                                                                  *)
C21_FirstPowersAreGenerators ==
    base \in Genesis =>
        /\ contribution.g1_powers[1] = G1Gen
        /\ contribution.g2_powers[1] = G2Gen

C21_Witness ==
    /\ base \in Genesis
    /\ Len(taus) = 2
    /\ taus[1] = 0 /\ taus[2] # 0
    /\ contribution.g1_powers[1] = G1Gen
    /\ contribution.g2_powers[1] = G2Gen

RECURSIVE AfterUpdates(_, _)
AfterUpdates(c, ts) ==
    IF ts = <<>> THEN c ELSE AfterUpdates(add_tau(c, ts[1]), Tail(ts))

(* C22: two add_tau calls in a row, with a and then b, leave the            *)
(* contribution (all g1 powers, all g2 powers and pubkey) as one call with  *)
(* a*b on the contribution they started from would.                         *)
C22_UpdatesCompose ==
    Len(taus) >= 2 =>
        LET n     == Len(taus)
            start == AfterUpdates(base, SubSeq(taus, 1, n - 2))
        IN  contribution = add_tau(start, FrMul(taus[n - 1], taus[n]))

C22_Witness ==
    /\ Len(taus) = 2
    /\ taus[1] \notin {0, 1} /\ taus[2] \notin {0, 1}
    /\ base \in Skewed
    /\ contribution = add_tau(base, FrMul(taus[1], taus[2]))
    /\ contribution # base

\* what the claim lets verify read of a transcript: the two lengths and the
\* last product
Essential(T) ==
    [pubkeys   |-> <<>>,
     products  |-> IF T.products = <<>> THEN <<>> ELSE <<T.products[Len(T.products)]>>,
     g1_powers |-> [i \in 1 .. Len(T.g1_powers) |-> G1Zero],
     g2_powers |-> [i \in 1 .. Len(T.g2_powers) |-> G2Zero]]

(* C23: the outcome of verify is the one the same contribution and draws    *)
(* give against a transcript that keeps only the two lengths and the last   *)
(* product, so it is the same for all transcripts that agree on those; and  *)
(* verify changes neither the contribution nor the transcript.              *)
C23_VerifyFrame ==
    /\ [](outcome # "none" =>
             outcome = verify(contribution, Essential(transcript), draw[1], draw[2]))
    /\ [][outcome' # outcome => UNCHANGED <<contribution, transcript>>]_vars

C23_Witness ==
    /\ outcome = "ok"
    /\ Len(transcript.products) = 2
    /\ transcript.products[1] # transcript.products[2]
    /\ transcript.g1_powers # contribution.g1_powers
    /\ taus = <<>> /\ base = contribution

(* C25: when the lengths agree and products is not empty, verify ends in    *)
(* acceptance or in a failed pairing equality, never in an index, slice or  *)
(* underflow fault, whatever the lengths are.                               *)
C25_NoIndexFault ==
    (/\ Len(contribution.g1_powers) = Len(transcript.g1_powers)
     /\ Len(contribution.g2_powers) = Len(transcript.g2_powers)
     /\ transcript.products # <<>>
     /\ outcome # "none")
    => outcome \in {"ok", "panic_verify_pubkey", "panic_verify_g1", "panic_verify_g2"}

ZeroUsed == \E i \in 1 .. Len(taus) : taus[i] = 0

(* C24: after add_tau with the zero secret on a genesis contribution every  *)
(* power beyond index 0 and the pubkey are the identity, and verify against *)
(* the genesis transcript passes each of its steps for every draw.          *)
C24_ZeroSecretAccepted ==
    (ZeroUsed /\ tampered = 0) =>
        /\ contribution.pubkey = G2Zero
        /\ \A i \in 2 .. Len(contribution.g1_powers) : contribution.g1_powers[i] = G1Zero
        /\ \A i \in 2 .. Len(contribution.g2_powers) : contribution.g2_powers[i] = G2Zero
        /\ outcome \in {"none", "ok"}

C24_Witness ==
    /\ taus = <<0>>
    /\ tampered = 0
    /\ origin = "new"
    /\ contribution.pubkey = G2Zero
    /\ outcome = "ok"

(* C26: parse_hex returns Ok or Err for every string and never panics; a    *)
(* string whose byte length is not 2 + 2*N gives InvalidLength(2 + 2*N,     *)
(* len) whatever it starts with, and a string of the right length that does *)
(* not start with "0x" gives MissingPrefix.                                 *)
C26_ParseHexTotal ==
    hex_out # NoCall =>
        LET r            == parse_hex(hex_in, G1_BYTES)
            expected_len == 2 + 2 * G1_BYTES
            prefixed     == Len(hex_in) >= 2 /\ hex_in[1] = "0" /\ hex_in[2] = "x"
        IN  /\ r.kind \in {"Ok", "Err"}
            /\ hex_out.kind \in {"Ok", "Err"}
            /\ StrLen(hex_in) # expected_len =>
                   r = Err(<<"InvalidLength", expected_len, StrLen(hex_in)>>)
            /\ (StrLen(hex_in) = expected_len /\ ~prefixed) =>
                   r = Err(<<"MissingPrefix">>)
====
